---- MODULE Spec2Model ----
(***************************************************************************)
(* Model of packages/skin-database/api/app.ts: the Express pipeline built  *)
(* by createApp, the CORS origin callback and the sitemap URL provider.    *)
(*                                                                         *)
(* JavaScript strings are modelled as sequences of one-character strings,  *)
(* so that regular-expression search, template literals and "contains"     *)
(* are computed character by character.                                    *)
(***************************************************************************)
EXTENDS Integers, Sequences, FiniteSets, TLC

VARIABLES
    eventHandler,  \* TRUE iff createApp was given an eventHandler
    req,           \* per request: the req/res objects and the position in the pipeline
    heap,          \* number of UserContext instances constructed so far
    handlerCalls,  \* the calls the eventHandler received, in order
    notifyCalls,   \* the calls of req.notify made by route handlers, in order
    running,       \* request whose synchronous code is on the call stack, 0 if none
    gateOrigin,    \* argument `origin` handed to corsOptions.origin
    gateResult,    \* what corsOptions.origin passed to its callback
    lastIndex,     \* the lastIndex property of each RegExp object of allowList
    smPc,          \* position of one getSitemapUrls() invocation
    smItems,       \* list Skins.getAllClassicSkins() resolved with
    smResult,      \* outcome of the getSitemapUrls() promise
    smFetches      \* number of calls of Skins.getAllClassicSkins()

gateVars == <<gateOrigin, gateResult, lastIndex>>
smVars == <<smPc, smItems, smResult, smFetches>>
appVars == <<eventHandler, req, heap, handlerCalls, notifyCalls, running>>
vars == <<eventHandler, req, heap, handlerCalls, notifyCalls, running,
          gateOrigin, gateResult, lastIndex, smPc, smItems, smResult, smFetches>>

----------------------------------------------------------------------------
(* Bounds *)

MaxItems == 3
MaxReq == 2
MaxNotify == 2

----------------------------------------------------------------------------
(* String helpers *)

\* s contains t as a contiguous substring (String.prototype.includes)
Contains(s, t) ==
    \E i \in 0..(Len(s) - Len(t)) :
        \A j \in 1..Len(t) : s[i + j] = t[j]

----------------------------------------------------------------------------
(* Regular expressions of the allow-list.  A pattern is a sequence of      *)
(* elements; a one-character element is a literal (an escaped "\." or      *)
(* "\/" is the literal character), the element "ANY" is an unescaped "."   *)

LineTerminators == {"\n", "\r"}

ElemMatches(e, c) ==
    IF e = "ANY" THEN c \notin LineTerminators ELSE e = c

\* the pattern matches s at offset i (0-based), consuming Len(p) characters
MatchesAt(p, s, i) ==
    /\ i + Len(p) <= Len(s)
    /\ \A j \in 1..Len(p) : ElemMatches(p[j], s[i + j])

\* RegExp.prototype.test for a pattern without anchors or flags: a search
\* for a match starting anywhere in s
RegexTest(p, s) ==
    \E i \in 0..Len(s) : MatchesAt(p, s, i)

\* the pattern matches s from its first to its last character
FullMatch(p, s) ==
    Len(p) = Len(s) /\ MatchesAt(p, s, 0)

ReSkins == <<"h","t","t","p","s",":","/","/","s","k","i","n","s",".","w","e","b","a","m","p",".","o","r","g">>
ReLocalhost == <<"h","t","t","p",":","/","/","l","o","c","a","l","h","o","s","t",":","3","0","0","0">>
ReNetlify == <<"n","e","t","l","i","f","y","ANY","a","p","p">>

allowList == <<ReSkins, ReLocalhost, ReNetlify>>

----------------------------------------------------------------------------
(* Errors and origins *)

NoError == [isErr |-> FALSE, message |-> <<>>, status |-> 0]

\* new Error(message): status 0 stands for "no status property"
Error(message) == [isErr |-> TRUE, message |-> message, status |-> 0]

\* the Origin header as the cors middleware reads it: undefined or a string
Absent == [present |-> FALSE, val |-> <<>>]
Present(s) == [present |-> TRUE, val |-> s]

\* JavaScript truthiness of `origin`: undefined and "" are falsy
Truthy(o) == o.present /\ o.val # <<>>

MsgHead == <<"R","e","q","u","e","s","t"," ","f","r","o","m"," ","o","r","i","g","i","n"," ","\"">>
MsgTail == <<"\""," ","n","o","t"," ","a","l","l","o","w","e","d"," ","b","y"," ","C","O","R","S",".">>

\* `Request from origin "${origin}" not allowed by CORS.`
DenyMessage(o) == MsgHead \o o.val \o MsgTail

\* every literal of allowList written with the g flag
GlobalAlways(k) == TRUE

\* whether the k-th literal of allowList carries the g or y flag: none does
Global(k) == FALSE

\* lastIndex of a freshly evaluated regex literal
NoLastIndex == [k \in 1..Len(allowList) |-> 0]

\* the positions allowList[k].test(s) tries: a regex with the g flag starts
\* at its lastIndex, any other at 0
Starts(k, s, li) == (IF Global(k) THEN li ELSE 0)..Len(s)

\* allowList[k].test(s) with the regex's lastIndex at li
TestFrom(k, s, li) ==
    \E i \in Starts(k, s, li) : MatchesAt(allowList[k], s, i)

\* lastIndex of allowList[k] after test(s): a regex with the g flag moves it
\* to the end of the match, or to 0 on failure; any other leaves it alone
LastIndexAfterTest(k, s, li) ==
    IF ~Global(k) THEN li
    ELSE IF TestFrom(k, s, li)
         THEN LET first == CHOOSE i \in Starts(k, s, li) :
                               /\ MatchesAt(allowList[k], s, i)
                               /\ \A j \in Starts(k, s, li) :
                                      MatchesAt(allowList[k], s, j) => i <= j
              IN  first + Len(allowList[k])
         ELSE 0

\* allowList.some((regex) => regex.test(origin))
SomeRuleMatches(o) ==
    \E k \in 1..Len(allowList) : TestFrom(k, o.val, lastIndex[k])

\* lastIndex of every rule after corsOptions.origin(o): nothing is tested for
\* a falsy origin, and `some` tests a rule only if no earlier rule matched
LastIndexAfterCallback(o) ==
    [k \in 1..Len(allowList) |->
        IF Truthy(o) /\ \A j \in 1..(k - 1) : ~TestFrom(j, o.val, lastIndex[j])
        THEN LastIndexAfterTest(k, o.val, lastIndex[k])
        ELSE lastIndex[k]]

\* corsOptions.origin without the `!origin` test
OriginCallbackNoFalsy(o) ==
    IF SomeRuleMatches(o)
    THEN [called |-> TRUE, err |-> NoError, allow |-> TRUE]
    ELSE [called |-> TRUE, err |-> Error(DenyMessage(o)), allow |-> FALSE]

\* corsOptions.origin: the arguments it passes to `callback`
OriginCallback(o) ==
    IF ~Truthy(o) \/ SomeRuleMatches(o)
    THEN [called |-> TRUE, err |-> NoError, allow |-> TRUE]
    ELSE [called |-> TRUE, err |-> Error(DenyMessage(o)), allow |-> FALSE]

NotCalled == [called |-> FALSE, err |-> NoError, allow |-> FALSE]

----------------------------------------------------------------------------
(* Inputs of the origin callback *)

Prefixes == {
    <<>>,
    <<"h","t","t","p","s",":","/","/">>,
    <<"h","t","t","p",":","/","/">>,
    <<"h","t","t","p","s",":","/","/","e","v","i","l",".","e","x","a","m","p","l","e","/","?">> }

Cores == {
    <<>>,
    <<"s","k","i","n","s",".","w","e","b","a","m","p",".","o","r","g">>,
    <<"s","k","i","n","s","-","w","e","b","a","m","p",".","o","r","g">>,
    <<"l","o","c","a","l","h","o","s","t",":","3","0","0","0">>,
    <<"n","e","t","l","i","f","y",".","a","p","p">>,
    <<"n","e","t","l","i","f","y","X","a","p","p">>,
    <<"f","o","o",".","n","e","t","l","i","f","y",".","a","p","p">>,
    <<"e","v","i","l",".","e","x","a","m","p","l","e">> }

Suffixes == {
    <<>>,
    <<".","e","v","i","l",".","e","x","a","m","p","l","e">>,
    <<"/">> }

GateOrigins ==
    {Absent} \cup {Present(p \o c \o s) : p \in Prefixes, c \in Cores, s \in Suffixes}

----------------------------------------------------------------------------
(* getSitemapUrls *)

StaticUrls == << <<"/","a","b","o","u","t">>, <<"/">>, <<"/","u","p","l","o","a","d">> >>

\* `skin/${md5}/${fileName}`
SkinUrl(item) == <<"s","k","i","n","/">> \o item.md5 \o <<"/">> \o item.fileName

\* the map with the items taken from the end of the list
SkinUrlsReversed(md5s) == [i \in 1..Len(md5s) |-> SkinUrl(md5s[Len(md5s) + 1 - i])]

\* md5s.map(({ md5, fileName }) => ...)
SkinUrls(md5s) == [i \in 1..Len(md5s) |-> SkinUrl(md5s[i])]

\* ["/about", "/", "/upload", ...skinUrls]
getSitemapUrls(md5s) == StaticUrls \o SkinUrls(md5s)

\* the settled promise of Skins.getAllClassicSkins()
FetchOk(items) == [ok |-> TRUE, items |-> items, err |-> [isErr |-> FALSE, message |-> <<>>, status |-> 0]]
FetchFailed(e) == [ok |-> FALSE, items |-> <<>>, err |-> e]

\* a getSitemapUrls that catches a failed fetch and returns the static entries
SettleStaticOnFailure(fetch) ==
    [settled |-> TRUE, err |-> [isErr |-> FALSE, message |-> <<>>, status |-> 0],
     urls |-> IF fetch.ok THEN getSitemapUrls(fetch.items) ELSE StaticUrls]

\* the promise of getSitemapUrls once the awaited fetch has settled: the
\* list when the fetch resolved, the fetch's error when it rejected (the
\* await rethrows and nothing catches)
Settle(fetch) ==
    IF fetch.ok
    THEN [settled |-> TRUE, err |-> fetch.err, urls |-> getSitemapUrls(fetch.items)]
    ELSE [settled |-> TRUE, err |-> fetch.err, urls |-> <<>>]

Md5s == { <<"a","b","c">>, <<"d","e","f">> }
FileNames == { <<"f","o","o",".","w","a","l">>, <<"b","a","r",".","w","s","z">>, <<"a"," ","b">> }
Items == [md5 : Md5s, fileName : FileNames]
ItemLists == UNION {[1..n -> Items] : n \in 0..MaxItems}

FetchError == Error(<<"f","e","t","c","h"," ","f","a","i","l","e","d">>)

NoResult == [settled |-> FALSE, err |-> NoError, urls |-> <<>>]

----------------------------------------------------------------------------
(* The pipeline assembled by createApp *)

Requests == 1..MaxReq

\* the order with the notifier registered before the context stage
StagesNotifyFirst == <<"sentryRequest", "notify", "ctx", "logger", "cors", "options",
                       "json", "upload", "sitemap", "router", "sentryError", "onError">>

\* a createApp that attaches the context after the logger
StagesContextAfterLogger == <<"sentryRequest", "notify", "logger", "ctx", "cors", "options",
                              "json", "upload", "sitemap", "router", "sentryError", "onError">>

\* the layers in the order createApp registers them (Sentry is always imported,
\* so both `if (Sentry)` branches are taken)
Stages == <<"sentryRequest", "ctx", "notify", "logger", "cors", "options",
            "json", "upload", "sitemap", "router", "sentryError", "onError">>

\* an onError registered as an ordinary three-parameter layer
IsErrorLayerSentryOnly(s) == s \in {"sentryError"}

\* layers registered with four parameters (err, req, res, next)
IsErrorLayer(s) == s \in {"sentryError", "onError"}

\* app.options("*", ...) is a route for the OPTIONS method only
LayerApplies(s, isErr, method) ==
    /\ IsErrorLayer(s) = isErr
    /\ (s = "options" => method = "OPTIONS")

IndexOf(s) == CHOOSE i \in 1..Len(Stages) : Stages[i] = s

\* the layer `next()` (isErr false) or `next(err)` (isErr true) called by layer
\* number i hands the request to; "final" is the end of the stack
NextLayerAfter(i, isErr, method) ==
    LET later == {j \in (i + 1)..Len(Stages) : LayerApplies(Stages[j], isErr, method)}
    IN  IF later = {} THEN "final"
        ELSE Stages[CHOOSE j \in later : \A k \in later : j <= k]

\* the layer a position belongs to: a suspended stage is still in its layer
LayerOf(pc) ==
    CASE pc = "jsonWait" -> "json"
      [] pc = "sitemapWait" -> "sitemap"
      [] pc = "handler" -> "router"
      [] OTHER -> pc

OriginSkins == Present(<<"h","t","t","p","s",":","/","/","s","k","i","n","s",".","w","e","b","a","m","p",".","o","r","g">>)
OriginEvil == Present(<<"h","t","t","p","s",":","/","/","e","v","i","l",".","e","x","a","m","p","l","e">>)
\* the requests clients send: a crawler without Origin header fetching the
\* sitemap, a browser on the site or on a foreign page posting a skin, and
\* pre-flight requests for both paths
Traffic == {
    [method |-> "GET", url |-> "/sitemap.xml", origin |-> Absent],
    [method |-> "GET", url |-> "/sitemap.xml", origin |-> OriginEvil],
    [method |-> "POST", url |-> "/skins", origin |-> OriginSkins],
    [method |-> "POST", url |-> "/skins", origin |-> OriginEvil],
    [method |-> "OPTIONS", url |-> "/skins", origin |-> OriginSkins],
    [method |-> "OPTIONS", url |-> "/skins", origin |-> OriginEvil],
    [method |-> "OPTIONS", url |-> "/sitemap.xml", origin |-> Absent] }

\* ApiAction: one value of each variant of the union
ApiActions == {
    [type |-> "REVIEW_REQUESTED", md5 |-> "abc", id |-> "", message |-> ""],
    [type |-> "SKIN_UPLOADED", md5 |-> "abc", id |-> "", message |-> ""],
    [type |-> "ERROR_PROCESSING_UPLOAD", md5 |-> "", id |-> "7", message |-> "bad zip"] }

PipeItemLists == { <<>>, << [md5 |-> <<"a","b","c">>, fileName |-> <<"f","o","o",".","w","a","l">>] >> }

NoBody == [kind |-> "none", message |-> <<>>, errorId |-> 0, urls |-> <<>>]

NoLogContext == [url |-> "", params |-> "none"]

ReqInit ==
    [pc |-> "idle", method |-> "GET", url |-> "", origin |-> Absent,
     ctx |-> 0, made |-> <<>>, seen |-> {}, hasNotify |-> FALSE, hasLog |-> FALSE,
     logContext |-> NoLogContext, params |-> "none", logged |-> {},
     fetches |-> 0, fetch |-> "none",
     cors |-> NotCalled, err |-> NoError, sentry |-> 0,
     statusCode |-> 200, ended |-> FALSE, body |-> NoBody, ran |-> <<>>]

\* one shared UserContext instead of a new one per request
NewUserContextShared(h) == 1

\* new UserContext(): the identity of the h+1-th instance constructed
NewUserContext(h) == h + 1

\* the context taken from a variable shared by all requests, which holds
\* the instance constructed last
NotifyCtxLatest(rq, h) == h

\* the second argument of eventHandler(action, req.ctx): read from the
\* request when notify is called; h is the number of instances constructed
NotifyCtx(rq, h) == rq.ctx

\* notify without the `if (eventHandler)` test
NotifyInvokesAlways(handler) == TRUE

\* `if (eventHandler)`: whether notify goes on to call eventHandler
NotifyInvokes(handler) == handler

\* the subscriber called twice for one notify
DeliverTwice(calls, call) == Append(Append(calls, call), call)

\* the call put in front of the earlier ones
DeliverFirst(calls, call) == <<call>> \o calls

\* the call itself: the subscriber's record of calls grows by this call
Deliver(calls, call) == Append(calls, call)

\* the status taken from the error when it carries one
OnErrorStatusFromErr(err) == IF err.status # 0 THEN err.status ELSE 500

\* res.statusCode set by onError
OnErrorStatus(err) == 500

\* the body onError hands to res.json
OnErrorBody(err, sentryId) ==
    [kind |-> "json", message |-> err.message, errorId |-> sentryId, urls |-> <<>>]

\* a middleware that goes on whatever the answer is
CorsOutcomeIgnoresDenial(answer, method) ==
    IF method = "OPTIONS" THEN "preflight" ELSE "next"

\* a cors middleware that leaves pre-flight requests to the routes
CorsOutcomeNoPreflight(answer, method) ==
    IF answer.err.isErr \/ ~answer.allow THEN "error" ELSE "next"

\* what the cors middleware does with the answer of corsOptions.origin:
\* next(err) on an error or a falsy origin, the pre-flight answer for
\* OPTIONS, next() otherwise
CorsOutcome(answer, method) ==
    IF answer.err.isErr \/ ~answer.allow THEN "error"
    ELSE IF method = "OPTIONS" THEN "preflight"
    ELSE "next"

\* the metadata req.log and req.logError hand to the console: the object
\* `context` built when the logger layer ran
LogEmits(rq) == rq.logContext

\* a notify that waits for the subscriber and passes every failure on
PropagatesAll(outcome) == outcome \in {"throws", "rejects"}

\* a notify that catches what the subscriber throws
PropagatesNone(outcome) == FALSE

\* whether the subscriber's failure leaves notify as an exception: the call
\* `eventHandler(action, req.ctx)` is not inside a try and its result is
\* neither awaited nor returned
Propagates(outcome) == outcome = "throws"

\* the request after its current layer ran and called next() or next(e)
CallNext(rq, e) ==
    [rq EXCEPT !.pc = NextLayerAfter(IndexOf(LayerOf(rq.pc)), e.isErr, rq.method),
               !.err = e,
               !.ran = Append(rq.ran, LayerOf(rq.pc))]

\* the request after its current layer ended the response
Respond(rq, status, body) ==
    [rq EXCEPT !.pc = "done", !.statusCode = status, !.body = body,
               !.ended = TRUE, !.ran = Append(rq.ran, LayerOf(rq.pc))]

BadJson == [isErr |-> TRUE, message |-> <<"b","a","d"," ","j","s","o","n">>, status |-> 400]
UploadFailed == [isErr |-> TRUE, message |-> <<"t","o","o"," ","l","a","r","g","e">>, status |-> 413]
Boom == Error(<<"b","o","o","m">>)
SubscriberFailed == Error(<<"s","u","b","s","c","r","i","b","e","r">>)
NotAFunction == Error(<<"n","o","t"," ","a"," ","f","u","n","c","t","i","o","n">>)

----------------------------------------------------------------------------
(* Initial states *)

AppIdle ==
    /\ req = [r \in Requests |-> ReqInit]
    /\ heap = 0
    /\ handlerCalls = <<>>
    /\ notifyCalls = <<>>
    /\ running = 0

GateIdle == gateOrigin = Absent /\ gateResult = NotCalled /\ lastIndex = NoLastIndex

SmIdle ==
    /\ smPc = "idle"
    /\ smItems = <<>>
    /\ smResult = NoResult
    /\ smFetches = 0

----------------------------------------------------------------------------
(* The origin callback applied to one origin *)

GateCall ==
    /\ ~gateResult.called
    /\ gateResult' = OriginCallback(gateOrigin)
    /\ lastIndex' = LastIndexAfterCallback(gateOrigin)
    /\ UNCHANGED <<gateOrigin, smVars, appVars>>

InitGate ==
    /\ gateOrigin \in GateOrigins
    /\ gateResult = NotCalled
    /\ lastIndex = NoLastIndex
    /\ SmIdle
    /\ eventHandler = FALSE
    /\ AppIdle

NextGate == GateCall

SpecGate == InitGate /\ [][NextGate]_vars

----------------------------------------------------------------------------
(* One invocation of getSitemapUrls *)

\* const md5s = await Skins.getAllClassicSkins(): the call, then suspension
SmCall ==
    /\ smPc = "idle"
    /\ smPc' = "awaiting"
    /\ smFetches' = smFetches + 1
    /\ UNCHANGED <<smItems, smResult, gateVars, appVars>>

\* the fetch resolves; the rest of the function runs and the promise resolves
SmResolve ==
    /\ smPc = "awaiting"
    /\ \E items \in ItemLists :
        /\ smItems' = items
        /\ smResult' = Settle(FetchOk(items))
    /\ smPc' = "returned"
    /\ UNCHANGED <<smFetches, gateVars, appVars>>

\* the fetch rejects; the await rethrows and the promise rejects with it
SmReject ==
    /\ smPc = "awaiting"
    /\ smResult' = Settle(FetchFailed(FetchError))
    /\ smPc' = "failed"
    /\ UNCHANGED <<smItems, smFetches, gateVars, appVars>>

InitSitemap == GateIdle /\ SmIdle /\ eventHandler = FALSE /\ AppIdle

NextSitemap == SmCall \/ SmResolve \/ SmReject

SpecSitemap == InitSitemap /\ [][NextSitemap]_vars

----------------------------------------------------------------------------
(* Requests through the pipeline.  JavaScript runs one call stack at a     *)
(* time: a layer that calls next() synchronously keeps the request         *)
(* `running`; requests interleave only where a layer waits for I/O.        *)

others == <<gateVars, smVars>>

\* a request arrives and Express enters the first layer
ArriveFrom(r, shapes) ==
    /\ running = 0
    /\ req[r].pc = "idle"
    /\ \A q \in Requests : q < r => req[q].pc # "idle"
    /\ \E t \in shapes :
        req' = [req EXCEPT ![r] =
                   [ReqInit EXCEPT !.pc = NextLayerAfter(0, FALSE, t.method),
                                   !.method = t.method, !.url = t.url,
                                   !.origin = t.origin]]
    /\ running' = r
    /\ UNCHANGED <<eventHandler, heap, handlerCalls, notifyCalls, others>>

Arrive(r) == ArriveFrom(r, Traffic)

\* Sentry.Handlers.requestHandler(): instrumentation, then next()
SentryRequestHandler(r) ==
    /\ running = r
    /\ req[r].pc = "sentryRequest"
    /\ req' = [req EXCEPT ![r] = CallNext(req[r], NoError)]
    /\ UNCHANGED <<eventHandler, heap, handlerCalls, notifyCalls, running, others>>

\* req.ctx = new UserContext(); next()
ContextStage(r) ==
    /\ running = r
    /\ req[r].pc = "ctx"
    /\ heap' = heap + 1
    /\ req' = [req EXCEPT ![r] =
                  CallNext([req[r] EXCEPT !.ctx = NewUserContext(heap),
                                          !.made = Append(req[r].made, NewUserContext(heap))],
                           NoError)]
    /\ UNCHANGED <<eventHandler, handlerCalls, notifyCalls, running, others>>

\* req.notify = (action) => {...}; next()
NotifierStage(r) ==
    /\ running = r
    /\ req[r].pc = "notify"
    /\ req' = [req EXCEPT ![r] = CallNext([req[r] EXCEPT !.hasNotify = TRUE], NoError)]
    /\ UNCHANGED <<eventHandler, heap, handlerCalls, notifyCalls, running, others>>

\* const context = {url, params, query}; req.log = ...; req.logError = ...; next()
LoggerStage(r) ==
    /\ running = r
    /\ req[r].pc = "logger"
    /\ req' = [req EXCEPT ![r] =
                  CallNext([req[r] EXCEPT !.hasLog = TRUE,
                                          !.logContext = [url |-> req[r].url,
                                                          params |-> req[r].params]],
                           NoError)]
    /\ UNCHANGED <<eventHandler, heap, handlerCalls, notifyCalls, running, others>>

\* cors(corsOptions), as app.use layer or as the app.options("*") route
CorsStage(r) ==
    /\ running = r
    /\ req[r].pc \in {"cors", "options"}
    /\ LET answer == OriginCallback(req[r].origin)
           rq == [req[r] EXCEPT !.cors = answer]
           outcome == CorsOutcome(answer, rq.method)
       IN  /\ req' = [req EXCEPT ![r] =
                        CASE outcome = "error" -> CallNext(rq, answer.err)
                          [] outcome = "preflight" ->
                                Respond(rq, 204, [NoBody EXCEPT !.kind = "empty"])
                          [] OTHER -> CallNext(rq, NoError)]
           /\ running' = IF outcome = "preflight" THEN 0 ELSE r
    /\ lastIndex' = LastIndexAfterCallback(req[r].origin)
    /\ UNCHANGED <<eventHandler, heap, handlerCalls, notifyCalls,
                   gateOrigin, gateResult, smVars>>

\* bodyParser.json(): next() at once without a body, else read the body
JsonStage(r) ==
    /\ running = r
    /\ req[r].pc = "json"
    /\ IF req[r].method = "POST"
       THEN /\ req' = [req EXCEPT ![r].pc = "jsonWait"]
            /\ running' = 0
       ELSE /\ req' = [req EXCEPT ![r] = CallNext(req[r], NoError)]
            /\ running' = r
    /\ UNCHANGED <<eventHandler, heap, handlerCalls, notifyCalls, others>>

\* the body was read: next() when it parses, next(err) with status 400 if not
JsonDone(r) ==
    /\ running = 0
    /\ req[r].pc = "jsonWait"
    /\ \E e \in {NoError, BadJson} :
        req' = [req EXCEPT ![r] = CallNext(req[r], e)]
    /\ running' = r
    /\ UNCHANGED <<eventHandler, heap, handlerCalls, notifyCalls, others>>

\* fileUpload({ limits }): next(), or next(err) when the upload fails
UploadStage(r) ==
    /\ running = r
    /\ req[r].pc = "upload"
    /\ \E e \in (IF req[r].method = "POST" THEN {NoError, UploadFailed} ELSE {NoError}) :
        req' = [req EXCEPT ![r] = CallNext(req[r], e)]
    /\ UNCHANGED <<eventHandler, heap, handlerCalls, notifyCalls, running, others>>

\* expressSitemapXml(getSitemapUrls, ...): calls getSitemapUrls for the
\* sitemap URL and waits for it, next() for every other URL
SitemapStage(r) ==
    /\ running = r
    /\ req[r].pc = "sitemap"
    /\ IF req[r].url = "/sitemap.xml"
       THEN /\ req' = [req EXCEPT ![r].pc = "sitemapWait",
                                   ![r].fetches = req[r].fetches + 1,
                                   ![r].fetch = "pending"]
            /\ running' = 0
       ELSE /\ req' = [req EXCEPT ![r] = CallNext(req[r], NoError)]
            /\ running' = r
    /\ UNCHANGED <<eventHandler, heap, handlerCalls, notifyCalls, others>>

\* the request after getSitemapUrls settled with `result`: the sitemap is
\* sent when it resolved, the error goes to the error layers when it rejected
AfterSitemap(rq, result) ==
    IF result.err.isErr
    THEN CallNext(rq, result.err)
    ELSE Respond(rq, 200, [NoBody EXCEPT !.kind = "xml", !.urls = result.urls])

\* the fetch resolved; getSitemapUrls goes on and settles
SitemapResolve(r) ==
    /\ running = 0
    /\ req[r].pc = "sitemapWait"
    /\ \E items \in PipeItemLists :
        LET rq == AfterSitemap([req[r] EXCEPT !.fetch = "resolved"], Settle(FetchOk(items)))
        IN  /\ req' = [req EXCEPT ![r] = rq]
            /\ running' = IF rq.pc = "done" THEN 0 ELSE r
    /\ UNCHANGED <<eventHandler, heap, handlerCalls, notifyCalls, others>>

\* the fetch rejected; getSitemapUrls settles
SitemapReject(r) ==
    /\ running = 0
    /\ req[r].pc = "sitemapWait"
    /\ LET rq == AfterSitemap([req[r] EXCEPT !.fetch = "rejected"],
                              Settle(FetchFailed(FetchError)))
       IN  /\ req' = [req EXCEPT ![r] = rq]
           /\ running' = IF rq.pc = "done" THEN 0 ELSE r
    /\ UNCHANGED <<eventHandler, heap, handlerCalls, notifyCalls, others>>

\* app.use("/", router): a route handler starts, reads req.ctx and waits
\* for its I/O, or no route matches and the router calls next()
RouterStage(r) ==
    /\ running = r
    /\ req[r].pc = "router"
    /\ \E matched \in BOOLEAN :
        IF matched
        THEN /\ req' = [req EXCEPT ![r].pc = "handler",
                                   ![r].params = "matched",
                                   ![r].seen = req[r].seen \cup {req[r].ctx}]
             /\ running' = 0
        ELSE /\ req' = [req EXCEPT ![r] = CallNext(req[r], NoError)]
             /\ running' = r
    /\ UNCHANGED <<eventHandler, heap, handlerCalls, notifyCalls, others>>

\* the route handler calls req.notify(ev); the subscriber, when called,
\* returns, throws, or returns and fails later ("rejects": the promise of
\* an async subscriber rejects)
Notify(r, outcomes) ==
    /\ running = 0
    /\ req[r].pc = "handler"
    /\ req[r].hasNotify
    /\ Len(notifyCalls) < MaxNotify
    /\ \E ev \in ApiActions, outcome \in outcomes :
        /\ notifyCalls' = Append(notifyCalls, [by |-> r, event |-> ev])
        /\ IF NotifyInvokes(eventHandler)
           THEN IF eventHandler
                THEN /\ handlerCalls' =
                            Deliver(handlerCalls,
                                    [event |-> ev, ctx |-> NotifyCtx(req[r], heap), by |-> r,
                                     outcome |-> outcome])
                     /\ IF Propagates(outcome)
                        THEN /\ req' = [req EXCEPT ![r] = CallNext(req[r], SubscriberFailed)]
                             /\ running' = r
                        ELSE UNCHANGED <<req, running>>
                ELSE \* calling undefined: a TypeError leaves notify
                     /\ outcome = "returns"
                     /\ req' = [req EXCEPT ![r] = CallNext(req[r], NotAFunction)]
                     /\ running' = r
                     /\ UNCHANGED handlerCalls
           ELSE /\ outcome = "returns"
                /\ UNCHANGED <<req, running, handlerCalls>>
    /\ UNCHANGED <<eventHandler, heap, others>>

\* notify with a subscriber that is an ordinary function
HandlerNotify(r) == Notify(r, {"returns", "throws"})

\* notify with a subscriber that may also be an async function
HandlerNotifyAny(r) == Notify(r, {"returns", "throws", "rejects"})

\* the route handler calls req.log(message) or req.logError(message):
\* console.log / console.error receive the message and `context`
HandlerLog(r) ==
    /\ running = 0
    /\ req[r].pc = "handler"
    /\ req[r].hasLog
    /\ \E level \in {"log", "error"} :
        req' = [req EXCEPT ![r].logged =
                   req[r].logged \cup
                       {[level |-> level,
                         emitted |-> LogEmits(req[r]),
                         atCall |-> [url |-> req[r].url, params |-> req[r].params]]}]
    /\ UNCHANGED <<eventHandler, heap, handlerCalls, notifyCalls, running, others>>

\* the route handler sends its response
HandlerRespond(r) ==
    /\ running = 0
    /\ req[r].pc = "handler"
    /\ req' = [req EXCEPT ![r] = Respond(req[r], 200, [NoBody EXCEPT !.kind = "route"])]
    /\ UNCHANGED <<eventHandler, heap, handlerCalls, notifyCalls, running, others>>

\* the route handler fails and the router passes the error on
HandlerThrow(r) ==
    /\ running = 0
    /\ req[r].pc = "handler"
    /\ req' = [req EXCEPT ![r] = CallNext(req[r], Boom)]
    /\ running' = r
    /\ UNCHANGED <<eventHandler, heap, handlerCalls, notifyCalls, others>>

\* Sentry.Handlers.errorHandler(): reports server errors, sets res.sentry,
\* then next(err)
SentryErrorHandler(r) ==
    /\ running = r
    /\ req[r].pc = "sentryError"
    /\ LET reported == req[r].err.status = 0 \/ req[r].err.status >= 500
       IN  req' = [req EXCEPT ![r] =
                      CallNext([req[r] EXCEPT !.sentry = IF reported THEN 1 ELSE 0],
                               req[r].err)]
    /\ UNCHANGED <<eventHandler, heap, handlerCalls, notifyCalls, running, others>>

\* onError: res.statusCode = 500; res.json({ errorId, message })
OnError(r) ==
    /\ running = r
    /\ req[r].pc = "onError"
    /\ req' = [req EXCEPT ![r] =
                  Respond(req[r], OnErrorStatus(req[r].err),
                          OnErrorBody(req[r].err, req[r].sentry))]
    /\ running' = 0
    /\ UNCHANGED <<eventHandler, heap, handlerCalls, notifyCalls, others>>

\* the end of the stack without an error: Express answers 404
Final(r) ==
    /\ running = r
    /\ req[r].pc = "final"
    /\ req' = [req EXCEPT ![r].pc = "done", ![r].statusCode = 404,
                          ![r].ended = TRUE,
                          ![r].body = [NoBody EXCEPT !.kind = "notfound"]]
    /\ running' = 0
    /\ UNCHANGED <<eventHandler, heap, handlerCalls, notifyCalls, others>>

\* createApp(eventHandler?) has returned; no request has arrived
Init ==
    /\ eventHandler \in BOOLEAN
    /\ AppIdle
    /\ GateIdle
    /\ SmIdle

Next ==
    \/ \E r \in Requests : Arrive(r)
    \/ \E r \in Requests : SentryRequestHandler(r)
    \/ \E r \in Requests : ContextStage(r)
    \/ \E r \in Requests : NotifierStage(r)
    \/ \E r \in Requests : LoggerStage(r)
    \/ \E r \in Requests : CorsStage(r)
    \/ \E r \in Requests : JsonStage(r)
    \/ \E r \in Requests : JsonDone(r)
    \/ \E r \in Requests : UploadStage(r)
    \/ \E r \in Requests : SitemapStage(r)
    \/ \E r \in Requests : SitemapResolve(r)
    \/ \E r \in Requests : SitemapReject(r)
    \/ \E r \in Requests : RouterStage(r)
    \/ \E r \in Requests : HandlerNotify(r)
    \/ \E r \in Requests : HandlerRespond(r)
    \/ \E r \in Requests : HandlerThrow(r)
    \/ \E r \in Requests : SentryErrorHandler(r)
    \/ \E r \in Requests : OnError(r)
    \/ \E r \in Requests : Final(r)

Spec == Init /\ [][Next]_vars

----------------------------------------------------------------------------
(* Properties of the origin callback (SpecGate) *)

\* C1 as stated: the callback answers ALLOW iff the origin is absent or some
\* rule matches it, and a DENY carries an error whose message contains the
\* origin
C1_AllowIffAbsentOrMatch ==
    gateResult.called =>
        /\ gateResult.allow <=>
              (~gateOrigin.present
               \/ \E k \in 1..Len(allowList) : RegexTest(allowList[k], gateOrigin.val))
        /\ ~gateResult.allow =>
              /\ gateResult.err.isErr
              /\ Contains(gateResult.err.message, gateOrigin.val)

\* C1 amended: the callback answers ALLOW iff the origin is absent, is the
\* empty string, or some rule matches it; otherwise it answers DENY with an
\* error whose message contains the origin verbatim
C1_AllowIffFalsyOrMatch ==
    gateResult.called =>
        /\ gateResult.allow <=>
              (~gateOrigin.present
               \/ gateOrigin.val = <<>>
               \/ \E k \in 1..Len(allowList) : RegexTest(allowList[k], gateOrigin.val))
        /\ gateResult.allow => ~gateResult.err.isErr
        /\ ~gateResult.allow =>
              /\ gateResult.err.isErr
              /\ Contains(gateResult.err.message, gateOrigin.val)

\* "https://evil.example" was denied and the error names it
C1_DeniedEvil ==
    /\ gateResult.called
    /\ gateOrigin = OriginEvil
    /\ ~gateResult.allow
    /\ Contains(gateResult.err.message, OriginEvil.val)

\* C2: a present (non-empty) origin is allowed only when some rule matches
\* the full origin string, so an origin that contains an allowed pattern as
\* a proper part of a longer string is denied
C2_AllowedOnlyOnFullMatch ==
    (gateResult.called /\ Truthy(gateOrigin) /\ gateResult.allow) =>
        \E k \in 1..Len(allowList) : FullMatch(allowList[k], gateOrigin.val)

----------------------------------------------------------------------------
(* Properties of getSitemapUrls (SpecSitemap) *)

\* C10: the result is "/about", "/", "/upload" in that order, followed by
\* one entry skin/{md5}/{fileName} per fetched item in the order of the
\* fetch; its length is 3 plus the number of items
C10_StaticThenSkinsInOrder ==
    smPc = "returned" =>
        /\ smResult.settled /\ ~smResult.err.isErr
        /\ Len(smResult.urls) = 3 + Len(smItems)
        /\ smResult.urls[1] = <<"/","a","b","o","u","t">>
        /\ smResult.urls[2] = <<"/">>
        /\ smResult.urls[3] = <<"/","u","p","l","o","a","d">>
        /\ \A i \in 1..Len(smItems) :
              smResult.urls[3 + i] =
                  <<"s","k","i","n","/">> \o smItems[i].md5 \o <<"/">> \o smItems[i].fileName

\* a list of two different items was turned into a sitemap
C10_TwoItemsReturned ==
    /\ smPc = "returned"
    /\ Len(smItems) = 2
    /\ smItems[1] # smItems[2]
    /\ Len(smResult.urls) = 5

----------------------------------------------------------------------------
(* Properties of the pipeline (Spec) *)

ErrorPath == {"sentryError", "onError", "done"}

\* C3: an error raised by a stage after the context stage is handled by the
\* error layers only and ends in status 500 with a JSON body whose message
\* is the error's message, whatever status the error itself carries
C3_ErrorsAnswered500 ==
    \A r \in Requests :
        req[r].err.isErr =>
            /\ req[r].pc \in ErrorPath
            /\ req[r].pc = "done" =>
                  /\ req[r].ended
                  /\ req[r].statusCode = 500
                  /\ req[r].body.kind = "json"
                  /\ req[r].body.message = req[r].err.message

\* a body-parsing error carrying status 400 was answered with status 500
C3_BadJsonAnswered ==
    \E r \in Requests :
        /\ req[r].pc = "done"
        /\ req[r].err = BadJson
        /\ req[r].statusCode = 500

SkippedOnDenial == {"options", "json", "upload", "sitemap", "router"}

\* C4: once the origin callback denied a request, none of the pre-flight
\* route, body parsing, upload handling, sitemap endpoint and route dispatch
\* runs for it; the denial error goes through the error layers and is
\* answered with status 500 and a message containing the rejected origin
C4_DenialAbortsPipeline ==
    \A r \in Requests :
        (req[r].cors.called /\ ~req[r].cors.allow) =>
            /\ \A i \in 1..Len(req[r].ran) : req[r].ran[i] \notin SkippedOnDenial
            /\ req[r].pc \in ErrorPath
            /\ req[r].err = req[r].cors.err
            /\ req[r].pc = "done" =>
                  /\ req[r].statusCode = 500
                  /\ Contains(req[r].body.message, req[r].origin.val)

\* a request from "https://evil.example" was denied and answered
C4_DeniedAnswered ==
    \E r \in Requests :
        /\ req[r].pc = "done"
        /\ req[r].origin = OriginEvil
        /\ req[r].cors.called /\ ~req[r].cors.allow
        /\ req[r].ran = <<"sentryRequest", "ctx", "notify", "logger", "cors",
                          "sentryError", "onError">>

\* the calls in `calls` made on behalf of request r
CallsBy(calls, r) == {i \in 1..Len(calls) : calls[i].by = r}

\* C5: each request has exactly one UserContext: the context stage
\* constructs it once, and the instance the subscriber receives from the
\* request's notify and the instance a handler reads as req.ctx are that one
C5_OneContextPerRequest ==
    \A r \in Requests :
        /\ Len(req[r].made) <= 1
        /\ (\E i \in 1..Len(req[r].ran) : req[r].ran[i] = "ctx") <=> Len(req[r].made) = 1
        /\ req[r].ctx = IF req[r].made = <<>> THEN 0 ELSE req[r].made[1]
        /\ \A c \in req[r].seen : req[r].made = <<c>>
        /\ \A i \in CallsBy(handlerCalls, r) : req[r].made = <<handlerCalls[i].ctx>>

\* a handler read req.ctx and the subscriber received a call of that request
\* after a later request had got its own context
C5_ContextUsed ==
    \E r \in Requests :
        /\ req[r].seen # {}
        /\ CallsBy(handlerCalls, r) # {}
        /\ req[r].ctx < heap

\* C6: the contexts of two different requests are distinct, and neither the
\* subscriber calls made for one request nor its handlers receive the
\* other request's instance
C6_ContextsNotShared ==
    \A r1, r2 \in Requests :
        r1 # r2 =>
            \A j \in 1..Len(req[r2].made) :
                /\ \A i \in 1..Len(req[r1].made) : req[r1].made[i] # req[r2].made[j]
                /\ req[r2].made[j] \notin req[r1].seen
                /\ \A i \in CallsBy(handlerCalls, r1) :
                      handlerCalls[i].ctx # req[r2].made[j]

\* two requests are in their route handlers at the same time and the
\* subscriber has received a call from each
C6_TwoHandlersInterleaved ==
    \E r1, r2 \in Requests :
        /\ r1 # r2
        /\ req[r1].pc = "handler" /\ req[r2].pc = "handler"
        /\ CallsBy(handlerCalls, r1) # {}
        /\ CallsBy(handlerCalls, r2) # {}

\* C7: with a subscriber, every call req.notify(event) calls the subscriber
\* exactly once, with that event and with the request's own context
C7_SubscriberCalledOncePerNotify ==
    eventHandler =>
        /\ \A r \in Requests, ev \in ApiActions :
              Cardinality({i \in CallsBy(handlerCalls, r) : handlerCalls[i].event = ev})
                  = Cardinality({i \in CallsBy(notifyCalls, r) : notifyCalls[i].event = ev})
        /\ \A i \in 1..Len(handlerCalls) :
              /\ handlerCalls[i].event \in ApiActions
              /\ handlerCalls[i].ctx = req[handlerCalls[i].by].ctx
              /\ handlerCalls[i].ctx # 0

\* with a subscriber, one request called notify twice with the same event
C7_NotifiedTwice ==
    /\ eventHandler
    /\ Len(notifyCalls) >= 2
    /\ notifyCalls[1] = notifyCalls[2]

\* C8: without a subscriber, a call of req.notify calls nothing, throws
\* nothing and leaves the request as it was
C8_NotifyWithoutSubscriberIsNoOp ==
    [][(~eventHandler /\ notifyCalls' # notifyCalls) =>
          /\ req' = req
          /\ handlerCalls' = <<>>
          /\ heap' = heap
          /\ running' = running]_vars

\* without a subscriber, a request that called notify was answered by its
\* handler
C8_NotifiedThenAnswered ==
    \E r \in Requests :
        /\ ~eventHandler
        /\ CallsBy(notifyCalls, r) # {}
        /\ req[r].pc = "done"
        /\ req[r].statusCode = 200
        /\ ~req[r].err.isErr

\* C9: with a subscriber, the subscriber is called within the call of
\* notify and at no other time, and its calls are appended in the order of
\* the notify calls
C9_DeliveredSynchronouslyInOrder ==
    [][IF notifyCalls' # notifyCalls
       THEN eventHandler =>
              /\ Len(notifyCalls') = Len(notifyCalls) + 1
              /\ Len(handlerCalls') = Len(handlerCalls) + 1
              /\ SubSeq(handlerCalls', 1, Len(handlerCalls)) = handlerCalls
              /\ handlerCalls'[Len(handlerCalls')].event = notifyCalls'[Len(notifyCalls')].event
              /\ handlerCalls'[Len(handlerCalls')].by = notifyCalls'[Len(notifyCalls')].by
       ELSE handlerCalls' = handlerCalls]_vars

\* with a subscriber, one request notified two different events and the
\* subscriber holds them in the order of the calls
C9_TwoEventsInOrder ==
    /\ eventHandler
    /\ Len(notifyCalls) >= 2
    /\ notifyCalls[1].by = notifyCalls[2].by
    /\ notifyCalls[1].event # notifyCalls[2].event
    /\ Len(handlerCalls) >= 2
    /\ handlerCalls[1].event = notifyCalls[1].event
    /\ handlerCalls[2].event = notifyCalls[2].event

\* the order in which a request that nothing short-circuits meets the stages
NormalOrder == <<"sentryRequest", "ctx", "notify", "logger", "cors",
                 "json", "upload", "sitemap", "router">>

\* the i-th stage request r ran is the i-th stage of the normal order
InNormalOrder(r, i) == i <= Len(NormalOrder) /\ req[r].ran[i] = NormalOrder[i]

\* C11: the stages of a request run in the fixed order entry hook, context,
\* notifier, logger, origin gate, body parsing, upload, sitemap, route
\* dispatch; the context is attached before notify and the logger are, and
\* onError is the last layer of the stack
C11_StagesInFixedOrder ==
    /\ Stages[Len(Stages)] = "onError"
    /\ \A r \in Requests :
          /\ req[r].hasNotify => req[r].ctx # 0
          /\ req[r].hasLog => req[r].ctx # 0
          /\ \A i \in 1..Len(req[r].ran) :
                IF req[r].ran[i] = "onError" THEN i = Len(req[r].ran)
                ELSE req[r].ran[i] = "sentryError" \/ InNormalOrder(r, i)

\* a request went through all nine stages and was answered by its handler
C11_AllStagesRan ==
    \E r \in Requests :
        /\ req[r].pc = "done"
        /\ req[r].statusCode = 200
        /\ req[r].ran = NormalOrder

----------------------------------------------------------------------------
(* Route handlers that log: requests for a route, whose handler calls      *)
(* req.log and req.logError                                                *)

RouteTraffic == { [method |-> "POST", url |-> "/skins", origin |-> OriginSkins] }

InitLog ==
    /\ eventHandler = FALSE
    /\ AppIdle
    /\ GateIdle
    /\ SmIdle

NextLog ==
    \/ \E r \in Requests : ArriveFrom(r, RouteTraffic)
    \/ \E r \in Requests : SentryRequestHandler(r)
    \/ \E r \in Requests : ContextStage(r)
    \/ \E r \in Requests : NotifierStage(r)
    \/ \E r \in Requests : LoggerStage(r)
    \/ \E r \in Requests : CorsStage(r)
    \/ \E r \in Requests : JsonStage(r)
    \/ \E r \in Requests : JsonDone(r)
    \/ \E r \in Requests : UploadStage(r)
    \/ \E r \in Requests : SitemapStage(r)
    \/ \E r \in Requests : RouterStage(r)
    \/ \E r \in Requests : HandlerLog(r)
    \/ \E r \in Requests : HandlerRespond(r)
    \/ \E r \in Requests : HandlerThrow(r)
    \/ \E r \in Requests : SentryErrorHandler(r)
    \/ \E r \in Requests : OnError(r)
    \/ \E r \in Requests : Final(r)

SpecLog == InitLog /\ [][NextLog]_vars

\* C12: every call of req.log or req.logError emits the URL and the route
\* parameters the request has at the moment of the call
C12_LogsMetadataAtCallTime ==
    \A r \in Requests :
        \A l \in req[r].logged : l.emitted = l.atCall

----------------------------------------------------------------------------
(* Route handlers that notify a subscriber which may fail in either way    *)

InitSub ==
    /\ eventHandler = TRUE
    /\ AppIdle
    /\ GateIdle
    /\ SmIdle

NextSub ==
    \/ \E r \in Requests : ArriveFrom(r, RouteTraffic)
    \/ \E r \in Requests : SentryRequestHandler(r)
    \/ \E r \in Requests : ContextStage(r)
    \/ \E r \in Requests : NotifierStage(r)
    \/ \E r \in Requests : LoggerStage(r)
    \/ \E r \in Requests : CorsStage(r)
    \/ \E r \in Requests : JsonStage(r)
    \/ \E r \in Requests : JsonDone(r)
    \/ \E r \in Requests : UploadStage(r)
    \/ \E r \in Requests : SitemapStage(r)
    \/ \E r \in Requests : RouterStage(r)
    \/ \E r \in Requests : HandlerNotifyAny(r)
    \/ \E r \in Requests : HandlerRespond(r)
    \/ \E r \in Requests : HandlerThrow(r)
    \/ \E r \in Requests : SentryErrorHandler(r)
    \/ \E r \in Requests : OnError(r)
    \/ \E r \in Requests : Final(r)

SpecSub == InitSub /\ [][NextSub]_vars

\* the step is a call of the subscriber that ended with `outcome`
SubscriberCalled(outcome) ==
    /\ Len(handlerCalls') = Len(handlerCalls) + 1
    /\ handlerCalls'[Len(handlerCalls')].outcome = outcome

\* C13 as stated: a subscriber that fails while handling an event does not
\* fail the request that called notify
C13_SubscriberFailureHarmless ==
    \A i \in 1..Len(handlerCalls) :
        handlerCalls[i].outcome # "returns" =>
            /\ ~req[handlerCalls[i].by].err.isErr
            /\ "onError" \notin {req[handlerCalls[i].by].ran[j] :
                                    j \in 1..Len(req[handlerCalls[i].by].ran)}

\* C13 amended: a subscriber that fails after its call has returned (its
\* promise rejects) changes nothing of the request that called notify, which
\* goes on as if the subscriber had succeeded
C13_LateFailureLeavesRequestAlone ==
    [][SubscriberCalled("rejects") => (req' = req /\ running' = running)]_vars

\* a request whose subscriber call failed later was answered by its handler
C13_RejectedThenAnswered ==
    \E i \in 1..Len(handlerCalls) :
        /\ handlerCalls[i].outcome = "rejects"
        /\ req[handlerCalls[i].by].pc = "done"
        /\ req[handlerCalls[i].by].statusCode = 200
        /\ ~req[handlerCalls[i].by].err.isErr

\* C14: when the subscriber throws during the call, notify neither catches
\* nor retries: the subscriber was called once and its failure is the error
\* the caller's request now carries
C14_ThrowLeavesNotify ==
    [][SubscriberCalled("throws") =>
          LET call == handlerCalls'[Len(handlerCalls')]
          IN  /\ handlerCalls' = Append(handlerCalls, call)
              /\ req'[call.by].err = SubscriberFailed
              /\ req'[call.by].pc = "sentryError"
              /\ running' = call.by]_vars

\* a request whose subscriber threw was answered by onError with the
\* subscriber's message
C14_ThrownThenAnswered ==
    \E i \in 1..Len(handlerCalls) :
        /\ handlerCalls[i].outcome = "throws"
        /\ req[handlerCalls[i].by].pc = "done"
        /\ req[handlerCalls[i].by].statusCode = 500
        /\ req[handlerCalls[i].by].body.message = SubscriberFailed.message

\* C15: getSitemapUrls produces nothing before the fetch has settled, calls
\* the fetch once, and when the fetch fails it returns no list: the
\* request carries the fetch's error through the error layers to onError,
\* as a route error does
C15_FetchAwaitedOnceAndFailurePropagates ==
    \A r \in Requests :
        /\ req[r].fetches <= 1
        /\ req[r].fetch = "none" <=> req[r].fetches = 0
        /\ req[r].fetch = "pending" =>
              /\ req[r].pc = "sitemapWait"
              /\ ~req[r].ended
              /\ req[r].body = NoBody
        /\ req[r].body.kind = "xml" => req[r].fetch = "resolved"
        /\ req[r].fetch = "rejected" =>
              /\ req[r].err = FetchError
              /\ req[r].body.urls = <<>>
              /\ req[r].pc \in ErrorPath
              /\ req[r].pc = "done" =>
                    /\ req[r].statusCode = 500
                    /\ req[r].body.kind = "json"
                    /\ req[r].body.message = FetchError.message
                    /\ req[r].ran = <<"sentryRequest", "ctx", "notify", "logger", "cors",
                                      "json", "upload", "sitemap", "sentryError", "onError">>

\* a sitemap request whose fetch failed was answered by onError
C15_FailedFetchAnswered ==
    \E r \in Requests :
        /\ req[r].fetch = "rejected"
        /\ req[r].fetches = 1
        /\ req[r].pc = "done"
        /\ req[r].statusCode = 500

\* the decision the rule set gives each origin a request can carry, computed
\* from the origin alone: allowed iff falsy or found by some rule
RuleAllows ==
    [o \in {t.origin : t \in Traffic} |->
        \/ ~Truthy(o)
        \/ \E k \in 1..Len(allowList) : RegexTest(allowList[k], o.val)]

\* C16: the decision of the origin callback depends only on the origin and
\* the rule set: whatever requests were evaluated before, a request's
\* decision is the rule applied to its own origin, two requests with the
\* same origin have the same decision, and no evaluation has changed the
\* state of the rules
C16_DecisionDependsOnOriginOnly ==
    /\ lastIndex = NoLastIndex
    /\ \A r \in Requests :
          req[r].cors.called =>
              req[r].cors.allow =
                  RuleAllows[req[r].origin]
    /\ \A r, q \in Requests :
          (r < q /\ req[q].cors.called /\ req[r].cors.called /\ req[r].origin = req[q].origin)
              => req[r].cors = req[q].cors

\* two requests with the same matching origin were evaluated one after the
\* other, with a denied evaluation in the history or not
C16_SameOriginEvaluatedTwice ==
    \E r, q \in Requests :
        /\ r < q
        /\ req[r].origin = OriginSkins
        /\ req[q].origin = OriginSkins
        /\ req[r].cors.called
        /\ req[q].cors.called

\* C17: an OPTIONS request, whatever its path, gets the decision the origin
\* rule gives every request; when the origin is absent or allowed the cors
\* layer answers it and no later stage, route dispatch included, runs; when
\* the origin is denied the request carries the denial error to the error
\* layers
C17_PreflightAnsweredByGate ==
    \A r \in Requests :
        (req[r].method = "OPTIONS" /\ req[r].cors.called) =>
            /\ req[r].cors.allow =
                  RuleAllows[req[r].origin]
            /\ \A i \in 1..Len(req[r].ran) : req[r].ran[i] \notin {"router", "sitemap", "options"}
            /\ req[r].pc \notin {"router", "handler"}
            /\ req[r].cors.allow =>
                  /\ req[r].pc = "done"
                  /\ ~req[r].err.isErr
                  /\ req[r].statusCode = 204
                  /\ req[r].ran[Len(req[r].ran)] = "cors"
            /\ ~req[r].cors.allow =>
                  /\ req[r].err = Error(DenyMessage(req[r].origin))
                  /\ req[r].pc \in ErrorPath
                  /\ req[r].pc = "done" => req[r].statusCode = 500

\* pre-flight requests to two different paths were answered by the cors
\* layer, one with an allowed origin and one without origin
C17_PreflightsToTwoPathsAnswered ==
    \E r, q \in Requests :
        /\ req[r].method = "OPTIONS" /\ req[q].method = "OPTIONS"
        /\ req[r].url # req[q].url
        /\ req[r].pc = "done" /\ req[q].pc = "done"
        /\ req[r].statusCode = 204 /\ req[q].statusCode = 204

\* the stages request r ran before its context stage did
RanBeforeContext(r) ==
    { req[r].ran[i] : i \in { i \in 1..Len(req[r].ran) :
                                 \A j \in 1..i : req[r].ran[j] # "ctx" } }

\* C18 as stated: no stage at all, the Sentry request handler included,
\* runs for a request before its context stage has run
C18_ContextBeforeEveryStage ==
    \A r \in Requests : RanBeforeContext(r) = {}

\* C18: the only stage that runs for a request before its context stage is
\* the Sentry request handler (the first stage run is that handler or the
\* context stage, and the context stage is among the first two); every
\* other stage, the error layers included, finds req.ctx attached
C18_ContextBeforeEveryStageButEntryHook ==
    \A r \in Requests :
        /\ Len(req[r].ran) >= 1 => req[r].ran[1] \in {"sentryRequest", "ctx"}
        /\ Len(req[r].ran) >= 2 => "ctx" \in {req[r].ran[1], req[r].ran[2]}
        /\ req[r].pc \notin {"idle", "sentryRequest", "ctx"} =>
              /\ req[r].ctx # 0
              /\ req[r].ran[1] = "sentryRequest"
              /\ req[r].ran[2] = "ctx"

\* a request ran its entry hook without a context, then its context stage,
\* then later stages
C18_HookThenContextThenOthers ==
    \E r \in Requests :
        /\ Len(req[r].ran) >= 4
        /\ RanBeforeContext(r) = {"sentryRequest"}
        /\ req[r].ctx # 0

\* the positions at which onError ran for request r
OnErrorRuns(r) == { i \in 1..Len(req[r].ran) : req[r].ran[i] = "onError" }

\* C19: onError runs only for a request that carries an error; a request
\* without an error is never at an error layer and never has the status-500
\* JSON body; onError runs at most once for a request, and when it has run
\* it is the last stage of the request, which is then ended
C19_OnErrorOnlyOnErrorsAndLast ==
    \A r \in Requests :
        /\ \A i \in 1..Len(req[r].ran) :
              req[r].ran[i] = "onError" =>
                  /\ i = Len(req[r].ran)
                  /\ req[r].err.isErr
                  /\ req[r].pc = "done"
                  /\ req[r].ended
        /\ ~req[r].err.isErr =>
              /\ req[r].pc \notin {"sentryError", "onError"}
              /\ ~(req[r].statusCode = 500 /\ req[r].body.kind = "json")

\* one request went through route dispatch without an error and was
\* answered, another was answered by onError
C19_OneCleanOneErrored ==
    \E r, q \in Requests :
        /\ req[r].pc = "done"
        /\ ~req[r].err.isErr
        /\ \E i \in 1..Len(req[r].ran) : req[r].ran[i] = "router"
        /\ OnErrorRuns(q) # {}
        /\ req[q].statusCode = 500

====
